---- MODULE Spec2Model ----
(***************************************************************************)
(* A model of muda/deformers/filter.py: the passband classifier            *)
(* checkfreqinband, the four annotation adapters of AbstractFilter, the    *)
(* deterministic state generator Filter.states and the three randomized    *)
(* generators RandomLPFilter, RandomHPFilter and RandomBPFilter.           *)
(*                                                                         *)
(* Encoding.                                                               *)
(*  - Frequencies are fixed-point numbers in milli-Hertz (1 Hz = 1000), so *)
(*    that the equal-tempered frequencies of MIDI numbers are integers.    *)
(*  - A Python value that may be None is a sequence of length at most 1:   *)
(*    None is << >> and the value v is <<v>>.                              *)
(*  - A Python str is a sequence of one-character strings.                 *)
(*  - The dict `state` is a function from its keys to values; cut_off is a *)
(*    sequence, <<f>> for a scalar and <<low, high>> for a pair.           *)
(*  - A raised exception is the name of its class; "none" when nothing was *)
(*    raised.  `None <= x` raises TypeError (Python 3).                    *)
(***************************************************************************)
EXTENDS Integers, Sequences, FiniteSets, TLC

VARIABLES
    state,        \* the dict a generator yields and the classifier reads
    call,         \* checkfreqinband: the arguments of the last call
    ret,          \* checkfreqinband: what the last call returned or raised
    namespace,    \* the annotation's namespace (selects the adapter)
    annotation,   \* the annotation's observations, in container order
    original,     \* the observations the annotation held before the adapter ran
    outcome,      \* "new", "ok" or the exception the adapter raised
    sr,           \* the session's sample rate, jam.sandbox.muda._audio["sr"]
    deformer,     \* per instance: the deformer object its constructor left
    gen,          \* per instance: the generator states(jam) returned
    received,     \* per instance: the dicts the consumer pulled, in order
    heap,         \* the dict objects allocated so far, by reference
    rngs          \* the RandomState objects allocated so far, by reference

vars == <<state, call, ret, namespace, annotation, original, outcome,
          sr, deformer, gen, received, heap, rngs>>

adapterVars == <<state, call, ret, namespace, annotation, original, outcome>>

generatorVars == <<sr, deformer, gen, received, heap, rngs>>

None == << >>
Some(v) == <<v>>

----------------------------------------------------------------------------
(* Bounds of the model.                                                    *)

\* longest annotation the caller builds
MaxLen == 2

\* longest list of cutoff entries a Filter is constructed with
MaxCut == 2

\* largest order the order estimator returns
MaxOrder == 2

\* largest n_samples a randomized generator is constructed with
MaxSamples == 2

----------------------------------------------------------------------------
(* Unit conversions (librosa), as the specification of the classifier      *)
(* gives them: hz = 440 * 2^((midi-69)/12); a note name is a letter,       *)
(* accidentals and an octave, midi = 12*(octave+1) + pitch + accidentals.  *)

RECURSIVE Pow2(_)
Pow2(n) == IF n = 0 THEN 1 ELSE 2 * Pow2(n - 1)

\* 440000 * 2^(i/12) for i = 0..11, rounded to the milli-Hertz
SemitoneTable ==
    <<440000, 466164, 493883, 523251, 554365, 587330,
      622254, 659255, 698456, 739989, 783991, 830609>>

midi_to_hz(m) ==
    LET d    == m - 69
        oct  == d \div 12
        semi == d % 12
    IN  IF oct >= 0 THEN SemitoneTable[semi + 1] * Pow2(oct)
                    ELSE SemitoneTable[semi + 1] \div Pow2(-oct)

Digits == <<"0", "1", "2", "3", "4", "5", "6", "7", "8", "9">>

DigitVal(c) == (CHOOSE i \in 1..10 : Digits[i] = c) - 1

\* str(n) for an integer n
RECURSIVE NatStr(_)
NatStr(n) == IF n < 10 THEN <<Digits[n + 1]>>
                       ELSE NatStr(n \div 10) \o <<Digits[(n % 10) + 1]>>

str(n) == IF n < 0 THEN <<"-">> \o NatStr(-n) ELSE NatStr(n)

\* int(s) for a string of digits
RECURSIVE ParseNat(_)
ParseNat(s) ==
    IF Len(s) = 0 THEN 0
    ELSE 10 * ParseNat(SubSeq(s, 1, Len(s) - 1)) + DigitVal(s[Len(s)])

pitch_map(c) ==
    CASE c = "C" -> 0 [] c = "D" -> 2 [] c = "E" -> 4 [] c = "F" -> 5
      [] c = "G" -> 7 [] c = "A" -> 9 [] c = "B" -> 11

acc_map(c) == IF c = "#" THEN 1 ELSE -1

RECURSIVE AccCount(_, _)
\* number of accidental characters of s from position i on
AccCount(s, i) ==
    IF i <= Len(s) /\ s[i] \in {"#", "b"} THEN 1 + AccCount(s, i + 1) ELSE 0

RECURSIVE AccSum(_, _, _)
AccSum(s, i, n) == IF n = 0 THEN 0 ELSE acc_map(s[i]) + AccSum(s, i + 1, n - 1)

note_to_midi(note) ==
    LET nacc   == AccCount(note, 2)
        rest   == SubSeq(note, 2 + nacc, Len(note))
        signed == Len(rest) > 0 /\ rest[1] \in {"+", "-"}
        digits == IF signed THEN SubSeq(rest, 2, Len(rest)) ELSE rest
        octave == IF Len(rest) = 0 THEN 0
                  ELSE IF signed /\ rest[1] = "-" THEN -ParseNat(digits)
                  ELSE ParseNat(digits)
    IN  12 * (octave + 1) + pitch_map(note[1]) + AccSum(note, 2, nacc)

note_to_hz(note) == midi_to_hz(note_to_midi(note))

----------------------------------------------------------------------------
(* checkfreqinband(freq, state, datatype)                                  *)

Ret(f, v, e) == [freq |-> f, voice |-> v, exc |-> e]

\* a variant of the classifier whose upper bound is inclusive
checkfreqinband_incl(freq, st, datatype) ==
    IF freq = None THEN Ret(None, FALSE, "TypeError")
    ELSE
    LET frequency == CASE datatype = "midi"       -> midi_to_hz(freq[1])
                       [] datatype = "hz"         -> freq[1]
                       [] datatype = "pitchclass" -> note_to_hz(freq[1])
        low  == IF st["btype"] = "bandpass" THEN st["cut_off"][1]
                ELSE IF st["btype"] = "low" THEN 0
                ELSE st["cut_off"][1]
        high == IF st["btype"] = "bandpass" THEN st["cut_off"][2]
                ELSE IF st["btype"] = "low" THEN st["cut_off"][1]
                ELSE st["nyquist"]
    IN  IF frequency <= low THEN Ret(None, FALSE, "none")
        ELSE IF frequency > high THEN Ret(None, FALSE, "none")
        ELSE Ret(freq, TRUE, "none")

checkfreqinband(freq, st, datatype) ==
    IF freq = None THEN Ret(None, FALSE, "TypeError")     \* None <= low
    ELSE
    LET frequency == CASE datatype = "midi"       -> midi_to_hz(freq[1])
                       [] datatype = "hz"         -> freq[1]
                       [] datatype = "pitchclass" -> note_to_hz(freq[1])
        low  == IF st["btype"] = "bandpass" THEN st["cut_off"][1]
                ELSE IF st["btype"] = "low" THEN 0
                ELSE st["cut_off"][1]
        high == IF st["btype"] = "bandpass" THEN st["cut_off"][2]
                ELSE IF st["btype"] = "low" THEN st["cut_off"][1]
                ELSE st["nyquist"]
    IN  IF frequency <= low THEN Ret(None, FALSE, "none")
        ELSE IF frequency >= high THEN Ret(None, FALSE, "none")
        ELSE Ret(freq, TRUE, "none")

----------------------------------------------------------------------------
(* Input domains.                                                          *)

SampleRates == {2000, 96000}

nyquist_of(rate) == rate * 500          \* sr / 2, in milli-Hertz

Cutoffs == {220000, 440000, 880000}

BTypes == {"low", "high", "bandpass"}

\* every dict a generator can hand to the classifier and the adapters
FilterStates ==
    { [btype |-> "low", cut_off |-> <<c>>, nyquist |-> nyquist_of(rate)] :
        c \in Cutoffs, rate \in SampleRates }
    \cup
    { [btype |-> "high", cut_off |-> <<c>>, nyquist |-> nyquist_of(rate)] :
        c \in Cutoffs, rate \in SampleRates }
    \cup
    { [btype |-> "bandpass", cut_off |-> <<p[1], p[2]>>, nyquist |-> nyquist_of(rate)] :
        p \in {q \in Cutoffs \X Cutoffs : q[1] < q[2]}, rate \in SampleRates }

HzValues == {220000, 440000, 880000, 1000000}

MidiValues == {57, 60, 69, 81}

Tonics == {<<"A">>, <<"C", "#">>}

Pitches == {-1, 4, 10}

NoteValues == {t \o str(p) : t \in Tonics, p \in Pitches}

DataTypes == {"midi", "hz", "pitchclass"}

FreqValues(datatype) ==
    CASE datatype = "hz"         -> {Some(v) : v \in HzValues} \cup {None}
      [] datatype = "midi"       -> {Some(v) : v \in MidiValues}
      [] datatype = "pitchclass" -> {Some(v) : v \in NoteValues}

Unset == Ret(None, FALSE, "unset")

NoCall == [freq |-> None, datatype |-> "hz"]

----------------------------------------------------------------------------
(* The classifier on its own: one call on drawn arguments.                 *)

Instances == {1, 2}

Absent == [cls |-> "absent", exc |-> "none"]

NoGen == [pc |-> "none", k |-> 0, state |-> 0, exc |-> "none", ords |-> {}]

GeneratorsIdle ==
    /\ sr = 0
    /\ deformer = [i \in Instances |-> Absent]
    /\ gen = [i \in Instances |-> NoGen]
    /\ received = [i \in Instances |-> << >>]
    /\ heap = << >>
    /\ rngs = << >>

AdaptersIdle ==
    /\ namespace = "none"
    /\ annotation = << >>
    /\ original = << >>
    /\ outcome = "idle"

InitClassify ==
    /\ state \in FilterStates
    /\ \E d \in DataTypes : \E f \in FreqValues(d) :
           call = [freq |-> f, datatype |-> d]
    /\ ret = Unset
    /\ AdaptersIdle
    /\ GeneratorsIdle

Classify ==
    /\ outcome = "idle"
    /\ ret = Unset
    /\ ret' = checkfreqinband(call.freq, state, call.datatype)
    /\ UNCHANGED <<state, call, namespace, annotation, original, outcome>>
    /\ UNCHANGED generatorVars

NextClassify == Classify

SpecClassify == InitClassify /\ [][NextClassify]_vars

\* the frequency of a classifier argument, in milli-Hertz
HzOf(freq, datatype) ==
    CASE datatype = "midi"       -> midi_to_hz(freq[1])
      [] datatype = "hz"         -> freq[1]
      [] datatype = "pitchclass" -> note_to_hz(freq[1])

\* the passband the claims name: (low, high) by btype
BandLow(st) == IF st["btype"] = "low" THEN 0 ELSE st["cut_off"][1]

BandHigh(st) ==
    CASE st["btype"] = "bandpass" -> st["cut_off"][2]
      [] st["btype"] = "low"      -> st["cut_off"][1]
      [] st["btype"] = "high"     -> st["nyquist"]

StrictlyInside(hz, st) == BandLow(st) < hz /\ hz < BandHigh(st)

\* C1: for a frequency in any of the three units, checkfreqinband returns
\* (freq, True) with freq the argument unchanged exactly when the frequency in
\* Hz is strictly between low and high, and (None, False) in every other case,
\* a frequency equal to low or to high included.
C1_Classifier ==
    (ret # Unset /\ call.freq # None) =>
        IF StrictlyInside(HzOf(call.freq, call.datatype), state)
        THEN ret = Ret(call.freq, TRUE, "none")
        ELSE ret = Ret(None, FALSE, "none")

\* a MIDI number whose frequency is exactly the upper bound was classified
C1_Witness ==
    /\ ret # Unset
    /\ call.datatype = "midi"
    /\ HzOf(call.freq, "midi") = BandHigh(state)
    /\ ret.voice = FALSE

----------------------------------------------------------------------------
(* The annotation adapters of AbstractFilter.  An adapter takes the        *)
(* observations out of the annotation (pop_data) and appends the ones it   *)
(* re-emits; an exception leaves the annotation with what was appended     *)
(* before it.                                                              *)

Obs(o, v) ==
    [time |-> o.time, duration |-> o.duration, confidence |-> o.confidence,
     value |-> v]

Done(acc, e) == [annotation |-> acc, exc |-> e]

RECURSIVE contour_loop(_, _, _, _)
contour_loop(data, st, i, acc) ==
    IF i > Len(data) THEN Done(acc, "none")
    ELSE LET obs == data[i]
             r   == checkfreqinband(obs.value["frequency"], st, "hz")
         IN  IF r.exc # "none" THEN Done(acc, r.exc)
             ELSE contour_loop(data, st, i + 1,
                      Append(acc, Obs(obs, [index     |-> obs.value["index"],
                                            frequency |-> r.freq,
                                            voiced    |-> r.voice])))

filter_contour(ann, st) == contour_loop(ann, st, 1, << >>)

RECURSIVE hz_loop(_, _, _, _)
hz_loop(data, st, i, acc) ==
    IF i > Len(data) THEN Done(acc, "none")
    ELSE LET obs == data[i]
             r   == checkfreqinband(Some(obs.value), st, "hz")
         IN  IF r.exc # "none" THEN Done(acc, r.exc)
             ELSE IF r.voice
                  THEN hz_loop(data, st, i + 1, Append(acc, Obs(obs, r.freq[1])))
                  ELSE hz_loop(data, st, i + 1, acc)

filter_hz(ann, st) == hz_loop(ann, st, 1, << >>)

RECURSIVE midi_loop(_, _, _, _, _)
midi_loop(data, st, datatype, i, acc) ==
    IF i > Len(data) THEN Done(acc, "none")
    ELSE LET obs == data[i]
             r   == checkfreqinband(Some(obs.value), st, datatype)
         IN  IF r.exc # "none" THEN Done(acc, r.exc)
             ELSE IF r.voice
                  THEN midi_loop(data, st, datatype, i + 1,
                                 Append(acc, Obs(obs, r.freq[1])))
                  ELSE midi_loop(data, st, datatype, i + 1, acc)

\* a variant of filter_midi that classifies the MIDI number as if it were Hz
filter_midi_as_hz(ann, st) == midi_loop(ann, st, "hz", 1, << >>)

filter_midi(ann, st) == midi_loop(ann, st, "midi", 1, << >>)

RECURSIVE class_loop(_, _, _, _)
class_loop(data, st, i, acc) ==
    IF i > Len(data) THEN Done(acc, "none")
    ELSE LET obs   == data[i]
             value == obs.value                         \* deepcopy
             token == value["tonic"] \o str(value["pitch"])
             r     == checkfreqinband(Some(token), st, "pitchclass")
             new   == r.freq[1]
         IN  IF r.exc # "none" THEN Done(acc, r.exc)
             ELSE IF r.voice
                  THEN class_loop(data, st, i + 1,
                           Append(acc, Obs(obs,
                               [tonic |-> SubSeq(new, 1, Len(new) - 1),
                                pitch |-> DigitVal(new[Len(new)])])))
                  ELSE class_loop(data, st, i + 1, acc)

filter_class(ann, st) == class_loop(ann, st, 1, << >>)

\* the annotation mapping AbstractFilter.__init__ registers
Registered ==
    [pitch_contour |-> "filter_contour",
     pitch_hz      |-> "filter_hz",     note_hz   |-> "filter_hz",
     pitch_midi    |-> "filter_midi",   note_midi |-> "filter_midi",
     pitch_class   |-> "filter_class"]

Namespaces == DOMAIN Registered

\* duration and confidence of an observation, and the contour it belongs to
ObsMeta == {[duration |-> 1, confidence |-> 0, index |-> 0],
            [duration |-> 2, confidence |-> 1, index |-> 1]}

ContourFrequencies == {None, Some(440000), Some(880000)}

ValuesOf(ns, m) ==
    CASE Registered[ns] = "filter_hz"   -> HzValues
      [] Registered[ns] = "filter_midi" -> MidiValues
      [] Registered[ns] = "filter_class" ->
            {[tonic |-> t, pitch |-> p] : t \in Tonics, p \in Pitches}
      [] Registered[ns] = "filter_contour" ->
            {[index |-> m.index, frequency |-> f, voiced |-> b] :
                f \in ContourFrequencies, b \in BOOLEAN}

ClassifierIdle ==
    /\ call = NoCall
    /\ ret = Unset

InitAdapters ==
    /\ state \in FilterStates
    /\ namespace \in Namespaces
    /\ annotation = << >>
    /\ original = << >>
    /\ outcome = "new"
    /\ ClassifierIdle
    /\ GeneratorsIdle

\* the caller records one more observation, later than the ones recorded
AppendObservation ==
    /\ outcome = "new"
    /\ Len(annotation) < MaxLen
    /\ \E m \in ObsMeta : \E v \in ValuesOf(namespace, m) :
           annotation' = Append(annotation,
               [time |-> Len(annotation), duration |-> m.duration,
                confidence |-> m.confidence, value |-> v])
    /\ UNCHANGED <<state, call, ret, namespace, original, outcome>>
    /\ UNCHANGED generatorVars

Deform(r) ==
    /\ original' = annotation
    /\ annotation' = r.annotation
    /\ outcome' = IF r.exc = "none" THEN "ok" ELSE r.exc
    /\ UNCHANGED <<state, call, ret, namespace>>
    /\ UNCHANGED generatorVars

FilterContour ==
    /\ outcome = "new"
    /\ Registered[namespace] = "filter_contour"
    /\ Deform(filter_contour(annotation, state))

FilterHz ==
    /\ outcome = "new"
    /\ Registered[namespace] = "filter_hz"
    /\ Deform(filter_hz(annotation, state))

FilterMidi ==
    /\ outcome = "new"
    /\ Registered[namespace] = "filter_midi"
    /\ Deform(filter_midi(annotation, state))

FilterClass ==
    /\ outcome = "new"
    /\ Registered[namespace] = "filter_class"
    /\ Deform(filter_class(annotation, state))

NextAdapters ==
    \/ AppendObservation
    \/ FilterContour
    \/ FilterHz
    \/ FilterMidi
    \/ FilterClass

SpecAdapters == InitAdapters /\ [][NextAdapters]_vars

\* the frequency in milli-Hertz of an observation of the namespace
ObsHz(ns, o) ==
    CASE Registered[ns] = "filter_hz"    -> o.value
      [] Registered[ns] = "filter_midi"  -> midi_to_hz(o.value)
      [] Registered[ns] = "filter_class" ->
            note_to_hz(o.value["tonic"] \o str(o.value["pitch"]))
      [] Registered[ns] = "filter_contour" -> o.value["frequency"][1]

Frame(o) == <<o.time, o.duration, o.confidence>>

Frames(seq) == [k \in 1..Len(seq) |-> Frame(seq[k])]

Adapted == outcome \notin {"new", "idle"}

\* C2: after filter_hz, filter_midi or filter_class the annotation holds
\* exactly the input observations whose frequency is strictly inside the
\* passband, in their order, with time, duration and confidence unchanged
\* (and, for the scalar encodings, the value unchanged); nothing out of band
\* is emitted and the annotation did not grow.
C2_Pruning ==
    (Adapted /\ Registered[namespace] \in {"filter_hz", "filter_midi", "filter_class"}) =>
        LET Kept(o) == StrictlyInside(ObsHz(namespace, o), state)
            kept    == SelectSeq(original, Kept)
        IN  /\ outcome = "ok"
            /\ Frames(annotation) = Frames(kept)
            /\ Registered[namespace] # "filter_class" => annotation = kept
            /\ Len(annotation) <= Len(original)

\* filter_midi dropped one of two observations and kept the other
C2_Witness ==
    /\ Adapted
    /\ Registered[namespace] = "filter_midi"
    /\ Len(original) = 2
    /\ Len(annotation) = 1

\* C3 as claimed: filter_contour completes on frequencies that are Hz values
\* or null, and leaves a sequence of the same length whose k-th observation
\* keeps time, duration, confidence and index, is voiced exactly when the
\* input frequency is strictly inside the passband, and carries the input
\* frequency when voiced and null otherwise.
C3_Contour ==
    (Adapted /\ Registered[namespace] = "filter_contour") =>
        /\ outcome = "ok"
        /\ Len(annotation) = Len(original)
        /\ \A k \in 1..Len(original) :
              LET i == original[k]
                  o == annotation[k]
                  inside == /\ i.value["frequency"] # None
                            /\ StrictlyInside(i.value["frequency"][1], state)
              IN  /\ Frame(o) = Frame(i)
                  /\ o.value["index"] = i.value["index"]
                  /\ o.value["voiced"] = inside
                  /\ o.value["frequency"] =
                        IF inside THEN i.value["frequency"] ELSE None

----------------------------------------------------------------------------
(* Filter: the deterministic state generator.                              *)
(*                                                                         *)
(* A cutoff argument is [kind, items]: kind is "scalar", "tuple" or        *)
(* "list", and items are its entries, each [kind, v] with v the numbers of *)
(* the entry (a scalar has one, a tuple or an inner list has several).     *)

Entry(kind, v) == [kind |-> kind, v |-> v]

Arg(kind, items) == [kind |-> kind, items |-> items]

Raised(cls, e) == [cls |-> cls, exc |-> e]

RECURSIVE Flatten(_)
\* np.atleast_1d(cutoff).flatten().tolist(): the numbers, each an entry
Flatten(items) ==
    IF Len(items) = 0 THEN << >>
    ELSE [k \in 1..Len(items[1].v) |-> <<items[1].v[k]>>] \o Flatten(Tail(items))

Filter_init(btype, attenuation, cutoff) ==
    LET made(c) == [cls |-> "Filter", exc |-> "none", btype |-> btype,
                    attenuation |-> attenuation, cutoff |-> c]
        vs == [k \in 1..Len(cutoff.items) |-> cutoff.items[k].v]
    IN  IF btype = "bandpass"
        THEN IF cutoff.kind = "tuple" THEN made(vs)
             ELSE IF cutoff.kind = "list"
             THEN IF \A k \in 1..Len(vs) : cutoff.items[k].kind = "tuple"
                  THEN made(vs)
                  ELSE IF \A k \in 1..Len(vs) : cutoff.items[k].kind = "list"
                  THEN IF \A k \in 1..Len(vs) : Len(vs[k]) = 2
                       THEN made(vs)
                       ELSE Raised("Filter", "ValueError")
                  ELSE Raised("Filter", "ValueError")
             ELSE Raised("Filter", "ValueError")
        ELSE IF cutoff.kind = "tuple" THEN Raised("Filter", "ValueError")
             ELSE IF cutoff.kind = "list" /\ Len(vs) = 0
             THEN Raised("Filter", "IndexError")             \* cutoff[0]
             ELSE IF cutoff.kind = "list" /\ cutoff.items[1].kind = "tuple"
             THEN Raised("Filter", "ValueError")
             ELSE made(Flatten(cutoff.items))

\* AbstractFilter.states: the one dict of a states(jam) call
AbstractFilter_states(rate) == [nyquist |-> nyquist_of(rate)]

\* a variant of the entry check whose high-pass branch forgets nyquist
Filter_check_no_nyquist(btype, entry, d) ==
    CASE btype = "bandpass" ->
            IF Len(entry) # 2 THEN "ValueError"
            ELSE IF entry[1] > entry[2] THEN "ValueError" ELSE "none"
      [] btype = "low" ->
            IF entry[1] <= 0 THEN "ValueError" ELSE "none"
      [] btype = "high" ->
            IF entry[1] <= 0 THEN "ValueError" ELSE "none"

\* the exception Filter.states raises on an entry, "none" when it accepts it
Filter_check(btype, entry, d) ==
    CASE btype = "bandpass" ->
            IF Len(entry) # 2 THEN "ValueError"              \* for low,high in
            ELSE IF entry[1] > entry[2] THEN "ValueError" ELSE "none"
      [] btype = "low" ->
            IF entry[1] <= 0 THEN "ValueError" ELSE "none"
      [] btype = "high" ->
            IF entry[1] <= 0 \/ entry[1] >= d["nyquist"]
            THEN "ValueError" ELSE "none"

\* the order estimator signal.cheb2ord, taken to succeed: some order, the
\* same whenever it is asked again about the same band edges (gen[i].ords
\* remembers the answers given during one states(jam) call)
Orders == 1..MaxOrder

cheb2ord(ords, entry) ==
    {o \in Orders : \A p \in ords : p[1] = entry => p[2] = o}

\* a variant that stores the halved attenuation the filter design uses
Filter_assign_half(d, self, entry, order) ==
    [cut_off |-> entry, order |-> order,
     attenuation |-> self.attenuation \div 2, btype |-> self.btype] @@ d

\* the assignments Filter.states makes to the dict before it yields it
Filter_assign(d, self, entry, order) ==
    [cut_off |-> entry, order |-> order,
     attenuation |-> self.attenuation, btype |-> self.btype] @@ d

SeqsUpTo(S, lo, n) == UNION {[1..k -> S] : k \in lo..n}

ScalarCutoffs == {-440000, 0, 440000, 880000, 1200000}

PairCutoffs ==
    {<<440000, 880000>>, <<880000, 440000>>, <<440000, 440000>>,
     <<0, 440000>>, <<440000, 1200000>>}

FilterCutoffArgs ==
    {Arg("scalar", <<Entry("scalar", <<f>>)>>) : f \in ScalarCutoffs}
    \cup {Arg("tuple", <<Entry("tuple", p)>>) : p \in PairCutoffs}
    \cup {Arg("list", l) :
            l \in SeqsUpTo({Entry("scalar", <<f>>) : f \in ScalarCutoffs}, 0, MaxCut)}
    \cup {Arg("list", l) :
            l \in SeqsUpTo({Entry("tuple", q) : q \in PairCutoffs}, 1, MaxCut)}
    \cup {Arg("list", l) :
            l \in SeqsUpTo({Entry("list", q) : q \in PairCutoffs}, 1, MaxCut)}
    \cup {Arg("list", <<Entry("list", <<440000, 880000, 1200000>>)>>)}

Attenuations == {30, 60}

ConstructFilter(i) ==
    /\ deformer[i] = Absent
    /\ \E b \in BTypes : \E a \in Attenuations : \E c \in FilterCutoffArgs :
           deformer' = [deformer EXCEPT ![i] =
               Filter_init(b, a, c) @@
               [args |-> [btype |-> b, attenuation |-> a, cutoff |-> c]]]
    /\ UNCHANGED <<sr, gen, received, heap, rngs>>
    /\ UNCHANGED adapterVars

\* states(jam): the generator object; nothing of its body has run yet
CallStates(i) ==
    /\ deformer[i].cls # "absent"
    /\ deformer[i].exc = "none"
    /\ gen[i].pc = "none"
    /\ gen' = [gen EXCEPT ![i] = [NoGen EXCEPT !.pc = "created"]]
    /\ UNCHANGED <<sr, deformer, received, heap, rngs>>
    /\ UNCHANGED adapterVars

Running(i) == gen[i].pc \in {"created", "suspended"}

Finish(i, k, ref, e) ==
    gen' = [gen EXCEPT ![i] = [pc |-> "finished", k |-> k, state |-> ref,
                               exc |-> e, ords |-> @.ords]]

Yield(i, k, ref, d, ords) ==
    /\ gen' = [gen EXCEPT ![i] = [pc |-> "suspended", k |-> k, state |-> ref,
                                  exc |-> "none", ords |-> ords]]
    /\ received' = [received EXCEPT ![i] = Append(@, [ref |-> ref, seen |-> d])]

\* next(generator) on Filter.states: runs to the next yield, to the end of
\* the loop or to the raise
PullFilter(i) ==
    /\ deformer[i].cls = "Filter"
    /\ Running(i)
    /\ LET self  == deformer[i]
           first == gen[i].pc = "created"
           ref   == IF first THEN Len(heap) + 1 ELSE gen[i].state
           hp    == IF first THEN Append(heap, AbstractFilter_states(sr)) ELSE heap
           k     == gen[i].k
       IN  IF k = Len(self.cutoff)
           THEN /\ Finish(i, k, ref, "none")
                /\ heap' = hp
                /\ UNCHANGED received
           ELSE LET entry == self.cutoff[k + 1]
                    e     == Filter_check(self.btype, entry, hp[ref])
                IN  IF e # "none"
                    THEN /\ Finish(i, k, ref, e)
                         /\ heap' = hp
                         /\ UNCHANGED received
                    ELSE \E order \in cheb2ord(gen[i].ords, entry) :
                           LET d == Filter_assign(hp[ref], self, entry, order)
                           IN  /\ heap' = [hp EXCEPT ![ref] = d]
                               /\ Yield(i, k + 1, ref, d,
                                        gen[i].ords \cup {<<entry, order>>})
    /\ UNCHANGED <<sr, deformer, rngs>>
    /\ UNCHANGED adapterVars

InitGenerators ==
    /\ sr \in SampleRates
    /\ deformer = [i \in Instances |-> Absent]
    /\ gen = [i \in Instances |-> NoGen]
    /\ received = [i \in Instances |-> << >>]
    /\ heap = << >>
    /\ rngs = << >>
    /\ state = << >>
    /\ ClassifierIdle
    /\ AdaptersIdle

NextFilter ==
    \/ ConstructFilter(1)
    \/ CallStates(1)
    \/ PullFilter(1)

SpecFilter == InitGenerators /\ [][NextFilter]_vars

\* the entries a cutoff argument declares, in order
Declared(cutoff) == [k \in 1..Len(cutoff.items) |-> cutoff.items[k].v]

\* the argument is a scalar or a list of scalars (a pair, a list of pairs)
WellShaped(btype, cutoff) ==
    IF btype = "bandpass"
    THEN /\ cutoff.kind \in {"tuple", "list"}
         /\ \A k \in 1..Len(cutoff.items) :
               /\ cutoff.items[k].kind \in {"tuple", "list"}
               /\ Len(cutoff.items[k].v) = 2
    ELSE /\ cutoff.kind \in {"scalar", "list"}
         /\ \A k \in 1..Len(cutoff.items) : cutoff.items[k].kind = "scalar"

\* validity of an entry as the generator's contract states it
ValidEntry(btype, v, nyq) ==
    CASE btype = "bandpass" -> v[1] < v[2]
      [] btype = "low"      -> v[1] > 0
      [] btype = "high"     -> v[1] > 0 /\ v[1] < nyq

Constructed(i) == deformer[i].cls # "absent" /\ deformer[i].exc = "none"

\* C4: a Filter with btype low, high or bandpass and valid cutoff entries
\* yields, in one states(jam) call, one descriptor per entry and no error; the
\* k-th, when yielded, has cut_off equal to the k-th declared entry, btype and
\* attenuation equal to the constructor's and nyquist half the sample rate.
C4_OnePerEntry ==
    \A i \in Instances :
      ( /\ Constructed(i)
        /\ deformer[i].cls = "Filter"
        /\ WellShaped(deformer[i].args.btype, deformer[i].args.cutoff)
        /\ \A k \in 1..Len(deformer[i].args.cutoff.items) :
              ValidEntry(deformer[i].args.btype,
                         deformer[i].args.cutoff.items[k].v, nyquist_of(sr)) )
      =>
        LET a        == deformer[i].args
            declared == Declared(a.cutoff)
        IN  /\ Len(received[i]) <= Len(declared)
            /\ gen[i].exc = "none"
            /\ gen[i].pc = "finished" => Len(received[i]) = Len(declared)
            /\ \A k \in 1..Len(received[i]) :
                  LET d == received[i][k].seen
                  IN  /\ d["cut_off"] = declared[k]
                      /\ d["btype"] = a.btype
                      /\ d["attenuation"] = a.attenuation
                      /\ d["nyquist"] = nyquist_of(sr)

\* a bandpass Filter declared with a list of two pairs has yielded both
C4_Witness ==
    /\ Constructed(1)
    /\ deformer[1].cls = "Filter"
    /\ deformer[1].args.btype = "bandpass"
    /\ deformer[1].args.cutoff.kind = "list"
    /\ gen[1].pc = "finished"
    /\ gen[1].exc = "none"
    /\ Len(received[1]) = 2
    /\ received[1][2].seen["cut_off"] = <<440000, 880000>>

\* the invariant of a descriptor
DescriptorInvariant(d) ==
    IF d["btype"] = "bandpass"
    THEN 0 < d["cut_off"][1] /\ d["cut_off"][1] < d["cut_off"][2]
         /\ d["cut_off"][2] < d["nyquist"]
    ELSE 0 < d["cut_off"][1] /\ d["cut_off"][1] < d["nyquist"]

\* C8 as claimed: with the order estimator succeeding, every descriptor
\* Filter.states yields satisfies the descriptor invariant (bandpass:
\* 0 < low < high < nyquist; low or high: 0 < cut_off < nyquist); an entry
\* that violates it produces an error instead of a descriptor.
C8_DescriptorInvariant ==
    \A i \in Instances :
      deformer[i].cls = "Filter" =>
        \A k \in 1..Len(received[i]) : DescriptorInvariant(received[i][k].seen)

\* C9 as claimed: a descriptor the consumer has received keeps every field
\* it had when it was yielded, whatever is pulled afterwards.
C9_Immutable ==
    \A i \in Instances :
      deformer[i].cls = "Filter" =>
        \A k \in 1..Len(received[i]) :
            heap[received[i][k].ref] = received[i][k].seen

----------------------------------------------------------------------------
(* The randomized generators.  A constructor argument is a Python number   *)
(* with its type, [ty, v, items]; a list argument has ty "list" and its    *)
(* numbers in items.                                                       *)

Num(ty, v) == [ty |-> ty, v |-> v, items |-> << >>]

List(items) == [ty |-> "list", v |-> 0, items |-> items]

float(x) == Num("float", x.v)

IsNumber(x) == x.ty \in {"int", "float"}

\* the pseudo-random stream of a RandomState: a function of seed and position
ZTable == <<-1, 1, 0, 1, -1>>

RandomState(seed) == [seed |-> seed, pos |-> 0]

\* rng.normal(loc, scale): the sample, and the generator after it
normal(rng, loc, scale) ==
    [x   |-> loc + scale * ZTable[((rng.seed + rng.pos) % Len(ZTable)) + 1],
     rng |-> [rng EXCEPT !.pos = @ + 1]]

\* np.random.mtrand._rand, the generator every module shares
GlobalRng == 1

\* base._get_rng(rng): the reference it returns and the objects after it
get_rng(rng, objs) ==
    IF rng = None THEN [ref |-> GlobalRng, objs |-> objs]
    ELSE [ref |-> Len(objs) + 1, objs |-> Append(objs, RandomState(rng[1]))]

\* a variant of the constructors' last lines that ignores the seed
share_rng(rng, objs) == [ref |-> GlobalRng, objs |-> objs]

\* self._rng = _get_rng(rng)
init_rng(rng, objs) == get_rng(rng, objs)

Built(obj, objs) == [obj |-> obj, rngs |-> objs]

RandomLPFilter_init(n_samples, attenuation, cutoff, sigma, rng, objs) ==
    LET cls == "RandomLPFilter"
        r   == init_rng(rng, objs)
    IN  IF sigma.v <= 0 THEN Built(Raised(cls, "ValueError"), objs)
        ELSE IF n_samples.v <= 0 THEN Built(Raised(cls, "ValueError"), objs)
        ELSE IF cutoff.ty = "float" /\ cutoff.v <= 0
        THEN Built(Raised(cls, "ValueError"), objs)
        ELSE IF cutoff.ty = "list" /\ \E k \in 1..Len(cutoff.items) : cutoff.items[k] <= 0
        THEN Built(Raised(cls, "ValueError"), objs)
        ELSE IF attenuation.v <= 0 THEN Built(Raised(cls, "ValueError"), objs)
        ELSE IF cutoff.ty = "list"
        THEN Built(Raised(cls, "TypeError"), r.objs)           \* float(cutoff)
        ELSE Built([cls |-> cls, exc |-> "none", n_samples |-> n_samples,
                    attenuation |-> attenuation, sigma |-> float(sigma),
                    rng |-> rng, _rng |-> r.ref,
                    cutoff |-> <<float(cutoff)>>], r.objs)

RandomHPFilter_init(n_samples, attenuation, cutoff, sigma, rng, objs) ==
    LET cls == "RandomHPFilter"
        r   == init_rng(rng, objs)
    IN  IF sigma.v <= 0 THEN Built(Raised(cls, "ValueError"), objs)
        ELSE IF n_samples.v <= 0 THEN Built(Raised(cls, "ValueError"), objs)
        ELSE IF attenuation.v <= 0 THEN Built(Raised(cls, "ValueError"), objs)
        ELSE IF cutoff.ty = "list" \/ cutoff.v <= 0
        THEN Built(Raised(cls, "ValueError"), objs)
        ELSE Built([cls |-> cls, exc |-> "none", n_samples |-> n_samples,
                    attenuation |-> attenuation, sigma |-> float(sigma),
                    rng |-> rng, _rng |-> r.ref,
                    cutoff |-> <<float(cutoff)>>], r.objs)

RandomBPFilter_init(n_samples, attenuation, cutoff_low, cutoff_high, sigma, rng, objs) ==
    LET cls == "RandomBPFilter"
        r   == init_rng(rng, objs)
    IN  IF sigma.v <= 0 THEN Built(Raised(cls, "ValueError"), objs)
        ELSE IF n_samples.v <= 0 THEN Built(Raised(cls, "ValueError"), objs)
        ELSE IF attenuation.v <= 0 THEN Built(Raised(cls, "ValueError"), objs)
        ELSE IF cutoff_low.v >= cutoff_high.v
        THEN Built(Raised(cls, "ValueError"), objs)
        ELSE IF cutoff_low.v <= 0 \/ cutoff_high.v <= 0
        THEN Built(Raised(cls, "ValueError"), objs)
        ELSE Built([cls |-> cls, exc |-> "none", n_samples |-> n_samples,
                    attenuation |-> attenuation, sigma |-> float(sigma),
                    rng |-> rng, _rng |-> r.ref,
                    cutoff |-> <<float(cutoff_low), float(cutoff_high)>>], r.objs)

RandomClasses == {"RandomLPFilter", "RandomHPFilter", "RandomBPFilter"}

NSamplesArgs ==
    {Num("int", n) : n \in -1..MaxSamples} \cup {Num("float", 0), Num("float", 1)}

AttenuationArgs == {Num("int", 0), Num("float", -60), Num("float", 60)}

SigmaArgs ==
    {Num("int", 0), Num("float", -1000), Num("int", 1000), Num("float", 4000000)}

CutoffArgs ==
    {Num("int", 0), Num("int", -8000000), Num("float", 0), Num("float", -8000000),
     Num("int", 8000000), Num("float", 8000000),
     List(<<8000000>>), List(<<8000000, 0>>)}

BandEdgeArgs ==
    {Num("int", 0), Num("float", -4000000), Num("int", 4000000),
     Num("float", 8000000)}

Seeds == {0, 1}

RngArgs == {None} \cup {Some(z) : z \in Seeds}

RandomArgs ==
    [cls : {"RandomLPFilter", "RandomHPFilter"}, n_samples : NSamplesArgs,
     attenuation : AttenuationArgs, sigma : SigmaArgs, rng : RngArgs,
     cutoffs : {<<c>> : c \in CutoffArgs}]
    \cup
    [cls : {"RandomBPFilter"}, n_samples : NSamplesArgs,
     attenuation : AttenuationArgs, sigma : SigmaArgs, rng : RngArgs,
     cutoffs : BandEdgeArgs \X BandEdgeArgs]

Random_init(a, objs) ==
    CASE a.cls = "RandomLPFilter" ->
            RandomLPFilter_init(a.n_samples, a.attenuation, a.cutoffs[1],
                                a.sigma, a.rng, objs)
      [] a.cls = "RandomHPFilter" ->
            RandomHPFilter_init(a.n_samples, a.attenuation, a.cutoffs[1],
                                a.sigma, a.rng, objs)
      [] a.cls = "RandomBPFilter" ->
            RandomBPFilter_init(a.n_samples, a.attenuation, a.cutoffs[1],
                                a.cutoffs[2], a.sigma, a.rng, objs)

Construct(i, a) ==
    LET b == Random_init(a, rngs)
    IN  /\ deformer' = [deformer EXCEPT ![i] = b.obj @@ [args |-> a]]
        /\ rngs' = b.rngs
        /\ UNCHANGED <<sr, gen, received, heap>>
        /\ UNCHANGED adapterVars

ConstructRandom ==
    /\ deformer[1] = Absent
    /\ \E a \in RandomArgs : Construct(1, a)

\* a second instance of the same class, with the same seed and parameters
ConstructTwin ==
    /\ Constructed(1)
    /\ deformer[2] = Absent
    /\ Construct(2, deformer[1].args)

RECURSIVE draw_band(_, _, _)
\* RandomBPFilter.states: the draws of one iteration, redrawn while
\* high <= low; the pair that leaves the loop and the generator after it
draw_band(self, rng, tries) ==
    LET h == normal(rng, self.cutoff[2].v, self.sigma.v)
        l == normal(h.rng, self.cutoff[1].v, self.sigma.v)
    IN  IF h.x <= l.x THEN draw_band(self, l.rng, tries + 1)
        ELSE [low |-> l.x, high |-> h.x, rng |-> l.rng, tries |-> tries]

\* what one iteration of a randomized states() loop does before it reaches
\* its yield: the dict and the generator afterwards, and the exception that
\* ends it.  The order line names `freq` and `fs`, which no scope defines.
Random_iteration(self, d, rng) ==
    CASE self.cls = "RandomLPFilter" ->
            [d |-> [btype |-> "low"] @@ d, rng |-> rng, exc |-> "NameError"]
      [] self.cls = "RandomHPFilter" ->
            [d |-> [btype |-> "high"] @@ d, rng |-> rng, exc |-> "NameError"]
      [] self.cls = "RandomBPFilter" ->
            LET b == draw_band(self, rng, 1)
            IN  [d   |-> [btype |-> "bandpass", cut_off |-> <<b.low, b.high>>] @@ d,
                 rng |-> b.rng, exc |-> "NameError"]

\* next(generator) on a randomized states()
PullRandom(i) ==
    /\ deformer[i].cls \in RandomClasses
    /\ Running(i)
    /\ LET self  == deformer[i]
           first == gen[i].pc = "created"
           ref   == IF first THEN Len(heap) + 1 ELSE gen[i].state
           hp    == IF first THEN Append(heap, AbstractFilter_states(sr)) ELSE heap
           k     == gen[i].k
       IN  IF self.n_samples.ty # "int"
           THEN /\ Finish(i, k, ref, "TypeError")             \* range(n_samples)
                /\ heap' = hp
                /\ UNCHANGED <<received, rngs>>
           ELSE IF k = self.n_samples.v
           THEN /\ Finish(i, k, ref, "none")
                /\ heap' = hp
                /\ UNCHANGED <<received, rngs>>
           ELSE LET it == Random_iteration(self, hp[ref], rngs[self._rng])
                IN  /\ heap' = [hp EXCEPT ![ref] = it.d]
                    /\ rngs' = [rngs EXCEPT ![self._rng] = it.rng]
                    /\ IF it.exc # "none"
                       THEN Finish(i, k, ref, it.exc) /\ UNCHANGED received
                       ELSE Yield(i, k + 1, ref, it.d, gen[i].ords)
    /\ UNCHANGED <<sr, deformer>>
    /\ UNCHANGED adapterVars

InitRandom ==
    /\ sr \in SampleRates
    /\ deformer = [i \in Instances |-> Absent]
    /\ gen = [i \in Instances |-> NoGen]
    /\ received = [i \in Instances |-> << >>]
    /\ heap = << >>
    /\ \E z \in Seeds : rngs = <<RandomState(z)>>
    /\ state = << >>
    /\ ClassifierIdle
    /\ AdaptersIdle

NextRandom ==
    \/ ConstructRandom
    \/ ConstructTwin
    \/ \E i \in Instances : CallStates(i)
    \/ \E i \in Instances : PullRandom(i)

SpecRandom == InitRandom /\ [][NextRandom]_vars

Populated(d) == {"order", "attenuation", "cut_off"} \subseteq DOMAIN d

\* C5 as claimed: a constructed RandomLPFilter or RandomHPFilter with
\* n_samples = n yields exactly n descriptors, each with btype low
\* (respectively high), nyquist half the sample rate and order, attenuation
\* and cut_off populated, and raises nothing before the n-th.
C5_RandomLowHigh ==
    \A i \in Instances :
      ( /\ Constructed(i)
        /\ deformer[i].cls \in {"RandomLPFilter", "RandomHPFilter"}
        /\ deformer[i].n_samples.ty = "int" )
      =>
        /\ gen[i].exc = "none"
        /\ gen[i].pc = "finished" => Len(received[i]) = deformer[i].n_samples.v
        /\ \A k \in 1..Len(received[i]) :
              LET d == received[i][k].seen
              IN  /\ d["btype"] =
                        (IF deformer[i].cls = "RandomLPFilter" THEN "low" ELSE "high")
                  /\ d["nyquist"] = nyquist_of(sr)
                  /\ Populated(d)

\* C6 as claimed: a constructed RandomBPFilter with n_samples = n yields
\* exactly n descriptors, every one with btype bandpass and cut_off =
\* (low, high) with low < high.
C6_RandomBand ==
    \A i \in Instances :
      ( /\ Constructed(i)
        /\ deformer[i].cls = "RandomBPFilter"
        /\ deformer[i].n_samples.ty = "int" )
      =>
        /\ gen[i].exc = "none"
        /\ gen[i].pc = "finished" => Len(received[i]) = deformer[i].n_samples.v
        /\ \A k \in 1..Len(received[i]) :
              LET d == received[i][k].seen
              IN  /\ d["btype"] = "bandpass"
                  /\ d["cut_off"][1] < d["cut_off"][2]

Positive(x) == IsNumber(x) /\ x.v > 0

\* C7 as claimed: no RandomLPFilter, RandomHPFilter or RandomBPFilter is
\* constructed with n_samples, attenuation, sigma or a cutoff argument zero
\* or negative (integer or float), nor a RandomBPFilter with
\* cutoff_low >= cutoff_high: the constructor raises instead.
C7_ConstructorRejects ==
    \A i \in Instances :
      (Constructed(i) /\ deformer[i].cls \in RandomClasses) =>
        LET a == deformer[i].args
        IN  /\ Positive(a.n_samples)
            /\ Positive(a.attenuation)
            /\ Positive(a.sigma)
            /\ \A k \in 1..Len(a.cutoffs) : Positive(a.cutoffs[k])
            /\ a.cls = "RandomBPFilter" => a.cutoffs[1].v < a.cutoffs[2].v

Seen(i) == [k \in 1..Len(received[i]) |-> received[i][k].seen]

Twins ==
    /\ Constructed(1)
    /\ Constructed(2)
    /\ deformer[1].args = deformer[2].args
    /\ deformer[1].args.rng # None

\* C10: two instances of one randomized class, constructed with the same
\* integer seed and parameters and run against the same sample rate, own
\* separate random states; whatever the interleaving of pulls, what one has
\* yielded agrees element-wise with what the other has, and once both have
\* ended they have yielded the same descriptors, ended the same way at the
\* same position, drawn equally often and built the same dict.
C10_Reproducible ==
    Twins =>
        /\ deformer[1]._rng # deformer[2]._rng
        /\ \A k \in 1..Len(received[1]) :
              k <= Len(received[2]) => received[1][k].seen = received[2][k].seen
        /\ (gen[1].pc = "finished" /\ gen[2].pc = "finished") =>
              /\ Seen(1) = Seen(2)
              /\ gen[1].exc = gen[2].exc
              /\ gen[1].k = gen[2].k
              /\ rngs[deformer[1]._rng] = rngs[deformer[2]._rng]
              /\ heap[gen[1].state] = heap[gen[2].state]

\* two seeded RandomBPFilter twins both ran, the second one first, and the
\* rejection loop redrew at least once in each
C10_Witness ==
    /\ Twins
    /\ deformer[1].cls = "RandomBPFilter"
    /\ gen[1].pc = "finished"
    /\ gen[2].pc = "finished"
    /\ gen[2].state < gen[1].state
    /\ rngs[deformer[1]._rng].pos > 2
    /\ rngs[deformer[2]._rng].pos > 2

\* an entry the deterministic generator refuses: bandpass low > high,
\* low-pass cutoff <= 0, high-pass cutoff <= 0 or >= nyquist
Refused(btype, v, nyq) ==
    CASE btype = "bandpass" -> v[1] > v[2]
      [] btype = "low"      -> v[1] <= 0
      [] btype = "high"     -> v[1] <= 0 \/ v[1] >= nyq

\* the positions (from 1) of the refused entries of a cutoff argument
RefusedAt(btype, cutoff, nyq) ==
    {k \in 1..Len(cutoff.items) : Refused(btype, cutoff.items[k].v, nyq)}

FirstRefused(btype, cutoff, nyq) ==
    CHOOSE k \in RefusedAt(btype, cutoff, nyq) :
        \A j \in RefusedAt(btype, cutoff, nyq) : k <= j

\* C11: for a Filter whose cutoff list has its first numerically invalid
\* entry at position k (0-based), construction succeeds, the first k pulls
\* yield the descriptors of entries 0..k-1 in order, the (k+1)-th pull raises
\* ValueError out of the generator, and no descriptor for entry k or a later
\* entry is ever yielded.
C11_LazyFailure ==
    \A i \in Instances :
      ( /\ deformer[i].cls = "Filter"
        /\ WellShaped(deformer[i].args.btype, deformer[i].args.cutoff)
        /\ RefusedAt(deformer[i].args.btype, deformer[i].args.cutoff,
                     nyquist_of(sr)) # {} )
      =>
        LET a        == deformer[i].args
            declared == Declared(a.cutoff)
            first    == FirstRefused(a.btype, a.cutoff, nyquist_of(sr))
        IN  /\ deformer[i].exc = "none"
            /\ Len(received[i]) < first
            /\ \A k \in 1..Len(received[i]) :
                  received[i][k].seen["cut_off"] = declared[k]
            /\ gen[i].pc = "suspended" => gen[i].k = Len(received[i])
            /\ gen[i].exc \in {"none", "ValueError"}
            /\ gen[i].pc = "finished" =>
                  /\ gen[i].exc = "ValueError"
                  /\ gen[i].k = first - 1
                  /\ Len(received[i]) = first - 1

\* a high-pass Filter declared with a valid entry and then one at or above
\* nyquist yielded the first and raised on the second pull
C11_Witness ==
    /\ deformer[1].cls = "Filter"
    /\ deformer[1].exc = "none"
    /\ deformer[1].args.btype = "high"
    /\ Len(deformer[1].args.cutoff.items) = 2
    /\ deformer[1].args.cutoff.items[2].v[1] >= nyquist_of(sr)
    /\ gen[1].pc = "finished"
    /\ gen[1].exc = "ValueError"
    /\ Len(received[1]) = 1

====
